---- MODULE Spec2Model ----
(***************************************************************************)
(* Model of the environment-control core of library_manager_system:        *)
(*   - the byte-framing codec (calc_cs, pack_frame) and FrameParser.feed,  *)
(*   - EnvironmentData: sample, device flags, thresholds, event log,       *)
(*     auto_control, on_serial_data, set_data_mode, simulate_data,         *)
(*   - the /api/control and /api/threshold handlers.                       *)
(*   - SerialManager: list_ports, connect, disconnect, send_command, the   *)
(*     reader threads of _rx_worker, and send_device_command,              *)
(*   - the simulate_data thread next to the reader's frame handler.        *)
(* Source: src/web_environment_control.py (src/deploy_cloud.py holds the   *)
(* same code at other line numbers).                                       *)
(***************************************************************************)
EXTENDS Integers, Sequences, FiniteSets, TLC

VARIABLES
    parser,         \* SerialManager.parser: the FrameParser's five fields
    result,         \* the last feed call on the stream: the byte fed, the state
                    \* the parser was in and the value returned
    wire,           \* bytes on the line not yet fed to the parser
    sent,           \* the stream under test: its kind, the frames packed into
                    \* it and the byte put in place of the first checksum
    out,            \* what feed returned for each byte of the stream fed so far
    data,           \* EnvironmentData.data
    device_states,  \* EnvironmentData.device_states
    thresholds,     \* EnvironmentData.thresholds
    events,         \* EnvironmentData.events
    data_mode,      \* EnvironmentData.data_mode
    use_simulation, \* EnvironmentData.use_simulation
    connected,      \* SerialManager.connected
    data_to_send,   \* the 'data' member of the last data_update emitted
    last            \* observation of the last operation: its name, the device
                    \* flags before it, the events it appended, how many
                    \* auto_control calls in a row saw the same inputs, and
                    \* the frame given to it when it is on_serial_data
VARIABLES
    SERIAL_AVAILABLE, \* whether "import serial" succeeded
    ser,            \* SerialManager.ser: "none", or the port object "open" or
                    \* "closed"
    stop_flag,      \* SerialManager.stop_flag
    rx_thread,      \* SerialManager.rx_thread: 0 is None, else the number of
                    \* the reader thread it refers to
    readers,        \* where each reader thread is in _rx_worker
    tick_pc,        \* where the simulate_data thread is in one pass of its
                    \* loop: "idle" between passes, "sampled" between the
                    \* writes of the sample and the call of auto_control
    handler,        \* the frame on_serial_data is handling on the reader
                    \* thread after its first assignment and before its
                    \* last, <<>> when it is not inside a call
    call            \* the call on the transport that the last step made, if
                    \* it made one: its name, arguments, return value, the
                    \* bytes it handed to ser.write, the reader it started
                    \* and the state it was made in

parserVars == <<parser, result, wire, sent, out>>
envVars == <<data, device_states, thresholds, events, data_mode,
             use_simulation, connected, data_to_send, last>>
transportVars == <<SERIAL_AVAILABLE, ser, stop_flag, rx_thread, readers, call>>
raceVars == <<tick_pc, handler>>
vars == <<parser, result, wire, sent, out, data, device_states, thresholds,
          events, data_mode, use_simulation, connected, data_to_send, last,
          SERIAL_AVAILABLE, ser, stop_flag, rx_thread, readers, call,
          tick_pc, handler>>

(***************************************************************************)
(* Bounds of the model.                                                    *)
(***************************************************************************)
\* longest payload packed into a frame of a stream under test
MaxPayloadLen == 2
\* operations are explored while the event log is shorter than this
MaxLog == 2
\* simulate_data iterations explored in a row
MaxCalls == 2
\* reader threads started over a run
MaxReaders == 2
\* different messages logged in a row before one comes back
MaxMessages == 3
\* frames in a stream read by a reader thread
MaxFrames == 2
\* bytes a read takes from a stream, unless it takes half a long frame or
\* all that waits
MaxRead == 16

(***************************************************************************)
(* Protocol constants and the codec.                                       *)
(***************************************************************************)
SOF == 170
EOF == 85

\* Python's None; a returned frame is the pair <<cmd, payload>>.
None == <<>>

RECURSIVE Xor(_, _)
\* a ^ b on non-negative integers
Xor(a, b) ==
    IF a = 0 /\ b = 0 THEN 0
    ELSE ((((a % 2) + (b % 2)) % 2) + (2 * Xor(a \div 2, b \div 2)))

RECURSIVE BitAnd(_, _)
\* a & b on non-negative integers
BitAnd(a, b) ==
    IF a = 0 \/ b = 0 THEN 0
    ELSE (((a % 2) * (b % 2)) + (2 * BitAnd(a \div 2, b \div 2)))

RECURSIVE calc_cs_from(_, _)
\* the loop of calc_cs from the running value cs: over one byte it is
\* cs ^ b, over more bytes it is the loop over the first half followed by the
\* loop over the second half from the value reached, a non-negative int
calc_cs_from(cs, bytes) ==
    IF bytes = <<>> THEN cs
    ELSE IF Len(bytes) = 1 THEN Xor(cs, bytes[1])
    ELSE LET k == Len(bytes) \div 2
             reached == calc_cs_from(cs, SubSeq(bytes, 1, k))
         IN  IF reached \in Nat
             THEN calc_cs_from(reached, SubSeq(bytes, k + 1, Len(bytes)))
             ELSE reached

calc_cs(bytes) == BitAnd(calc_cs_from(0, bytes), 255)

\* a packer that counts only the payload in LEN
pack_frame_len(cmd, payload) ==
    LET length == Len(payload)
        body == <<length, cmd>> \o payload
    IN  <<SOF>> \o body \o <<calc_cs(body), EOF>>

pack_frame(cmd, payload) ==
    LET length == 1 + Len(payload)
        body == <<length, cmd>> \o payload
        cs == calc_cs(body)
    IN  <<SOF>> \o body \o <<cs, EOF>>

(***************************************************************************)
(* FrameParser.  A parser is the record of its fields; every feed_state*   *)
(* operator is one branch of feed and yields the parser after the byte and *)
(* the value returned.                                                     *)
(***************************************************************************)
FrameParser ==
    [state |-> 0, buf |-> <<>>, length |-> 0, expected_payload |-> 0,
     payload |-> <<>>]

\* Python's seq[lo:hi] for 0 <= lo and 0 <= hi
Slice(seq, lo, hi) ==
    SubSeq(seq, lo + 1, IF hi < Len(seq) THEN hi ELSE Len(seq))

Returned(p, r) == [parser |-> p, result |-> r]

feed_state0(p, b) ==
    IF b = SOF
    THEN Returned([p EXCEPT !.buf = <<>>, !.state = 1], None)
    ELSE Returned(p, None)

feed_state1(p, b) ==
    Returned([p EXCEPT !.length = b, !.buf = <<b>>, !.state = 2], None)

feed_state2(p, b) ==
    IF p.length = 1
    THEN Returned([p EXCEPT !.buf = Append(p.buf, b), !.state = 3], None)
    ELSE Returned([p EXCEPT !.buf = Append(p.buf, b), !.state = 21,
                            !.expected_payload = p.length - 1,
                            !.payload = <<>>], None)

\* a payload branch that takes one byte more than announced
feed_state21_late(p, b) ==
    LET payload == Append(p.payload, b)
    IN  IF Len(payload) > p.expected_payload
        THEN Returned([p EXCEPT !.payload = payload,
                                !.buf = p.buf \o payload, !.state = 3], None)
        ELSE Returned([p EXCEPT !.payload = payload], None)

feed_state21(p, b) ==
    LET payload == Append(p.payload, b)
    IN  IF Len(payload) >= p.expected_payload
        THEN Returned([p EXCEPT !.payload = payload,
                                !.buf = p.buf \o payload, !.state = 3], None)
        ELSE Returned([p EXCEPT !.payload = payload], None)

\* a checksum branch that re-examines the rejected byte as a possible SOF
feed_state3_resof(p, b) ==
    IF calc_cs(p.buf) # b
    THEN Returned([p EXCEPT !.state = IF b = SOF THEN 1 ELSE 0], None)
    ELSE Returned([p EXCEPT !.state = 4], None)

\* a checksum branch that accepts every checksum byte
feed_state3_nocheck(p, b) ==
    Returned([p EXCEPT !.state = 4], None)

feed_state3(p, b) ==
    LET cs_calc == calc_cs(p.buf)
    IN  IF cs_calc # b
        THEN Returned([p EXCEPT !.state = 0], None)
        ELSE Returned([p EXCEPT !.state = 4], None)

\* a terminator branch that re-examines the rejected byte as a possible SOF
feed_state4_resof(p, b) ==
    IF b = EOF
    THEN Returned([p EXCEPT !.state = 0],
                  <<p.buf[2], Slice(p.buf, 2, 2 + (p.buf[1] - 1))>>)
    ELSE Returned([p EXCEPT !.state = IF b = SOF THEN 1 ELSE 0], None)

feed_state4(p, b) ==
    IF b = EOF
    THEN LET length == p.buf[1]
             cmd == p.buf[2]
             payload == Slice(p.buf, 2, 2 + (length - 1))
         IN  Returned([p EXCEPT !.state = 0], <<cmd, payload>>)
    ELSE Returned([p EXCEPT !.state = 0], None)

feed(p, b) ==
    CASE p.state = 0 -> feed_state0(p, b)
      [] p.state = 1 -> feed_state1(p, b)
      [] p.state = 2 -> feed_state2(p, b)
      [] p.state = 21 -> feed_state21(p, b)
      [] p.state = 3 -> feed_state3(p, b)
      [] p.state = 4 -> feed_state4(p, b)
      [] OTHER -> Returned(p, None)

(***************************************************************************)
(* EnvironmentData.  Numbers are the integer-valued floats; an event is    *)
(* the record add_event builds without its timestamp; a message is the     *)
(* tuple of the words that make it up.                                     *)
(***************************************************************************)
MaxEvents == 100

Devices ==
    {"heating", "cooling", "humidify", "dehumidify", "ventilation",
     "close_vent"}

SampleKeys == {"temperature", "humidity", "co2", "light", "smoke"}

InitData ==
    [temperature |-> 25, humidity |-> 60, co2 |-> 400, light |-> 350,
     smoke |-> 0]

InitDeviceStates == [d \in Devices |-> FALSE]

InitThresholds ==
    [temperature |-> [min |-> 20, max |-> 26],
     humidity |-> [min |-> 40, max |-> 70],
     co2 |-> [max |-> 1000],
     light |-> [min |-> 100, max |-> 800],
     smoke |-> [max |-> 50]]

Event(type, message, level) ==
    [type |-> type, message |-> message, level |-> level]

add_event_early(ev, type, message, level) ==
    IF Len(ev) + 1 >= MaxEvents
    THEN Tail(Append(ev, Event(type, message, level)))
    ELSE Append(ev, Event(type, message, level))

add_event(ev, type, message, level) ==
    LET appended == Append(ev, Event(type, message, level))
    IN  IF Len(appended) > MaxEvents THEN Tail(appended) ELSE appended

RECURSIVE add_events(_, _)
\* add_event called once for each entry of a list, in order
add_events(ev, entries) ==
    IF entries = <<>> THEN ev
    ELSE add_events(add_event(ev, Head(entries).type, Head(entries).message,
                              Head(entries).level),
                    Tail(entries))

\* The result of one hysteresis loop: the flags after it and the messages
\* it put on the changes list.
Loop(ds, changes) == [ds |-> ds, changes |-> changes]

\* a temperature loop that logs on every evaluation, not only on the flip
temperature_control_level(ds, d, th) ==
    IF d.temperature < th.temperature.min
    THEN Loop([ds EXCEPT !.heating = TRUE, !.cooling = FALSE],
              << <<"start", "heating">> >>)
    ELSE IF d.temperature > th.temperature.max
    THEN Loop([ds EXCEPT !.cooling = TRUE, !.heating = FALSE],
              << <<"start", "cooling">> >>)
    ELSE LET c1 == IF ds.heating THEN << <<"stop", "heating">> >> ELSE <<>>
             c2 == IF ds.cooling THEN << <<"stop", "cooling">> >> ELSE <<>>
         IN  Loop([ds EXCEPT !.heating = FALSE, !.cooling = FALSE], c1 \o c2)

\* a temperature loop that sets its flag without clearing the opposite one
temperature_control_noclear(ds, d, th) ==
    IF d.temperature < th.temperature.min
    THEN IF ~ds.heating
         THEN Loop([ds EXCEPT !.heating = TRUE],
                   << <<"start", "heating">> >>)
         ELSE Loop(ds, <<>>)
    ELSE IF d.temperature > th.temperature.max
    THEN IF ~ds.cooling
         THEN Loop([ds EXCEPT !.cooling = TRUE],
                   << <<"start", "cooling">> >>)
         ELSE Loop(ds, <<>>)
    ELSE LET c1 == IF ds.heating THEN << <<"stop", "heating">> >> ELSE <<>>
             c2 == IF ds.cooling THEN << <<"stop", "cooling">> >> ELSE <<>>
         IN  Loop([ds EXCEPT !.heating = FALSE, !.cooling = FALSE], c1 \o c2)

\* messages: <<"start", d>> is the "启动...系统" text of device d and
\* <<"stop", d>> its "关闭...系统" text
temperature_control(ds, d, th) ==
    IF d.temperature < th.temperature.min
    THEN IF ~ds.heating
         THEN Loop([ds EXCEPT !.heating = TRUE, !.cooling = FALSE],
                   << <<"start", "heating">> >>)
         ELSE Loop(ds, <<>>)
    ELSE IF d.temperature > th.temperature.max
    THEN IF ~ds.cooling
         THEN Loop([ds EXCEPT !.cooling = TRUE, !.heating = FALSE],
                   << <<"start", "cooling">> >>)
         ELSE Loop(ds, <<>>)
    ELSE LET c1 == IF ds.heating THEN << <<"stop", "heating">> >> ELSE <<>>
             c2 == IF ds.cooling THEN << <<"stop", "cooling">> >> ELSE <<>>
         IN  Loop([ds EXCEPT !.heating = FALSE, !.cooling = FALSE], c1 \o c2)

\* a humidity loop that switches its devices without logging
humidity_control_silent(ds, d, th) ==
    IF d.humidity < th.humidity.min
    THEN IF ~ds.humidify
         THEN Loop([ds EXCEPT !.humidify = TRUE, !.dehumidify = FALSE], <<>>)
         ELSE Loop(ds, <<>>)
    ELSE IF d.humidity > th.humidity.max
    THEN IF ~ds.dehumidify
         THEN Loop([ds EXCEPT !.dehumidify = TRUE, !.humidify = FALSE], <<>>)
         ELSE Loop(ds, <<>>)
    ELSE Loop([ds EXCEPT !.humidify = FALSE, !.dehumidify = FALSE], <<>>)

humidity_control(ds, d, th) ==
    IF d.humidity < th.humidity.min
    THEN IF ~ds.humidify
         THEN Loop([ds EXCEPT !.humidify = TRUE, !.dehumidify = FALSE],
                   << <<"start", "humidify">> >>)
         ELSE Loop(ds, <<>>)
    ELSE IF d.humidity > th.humidity.max
    THEN IF ~ds.dehumidify
         THEN Loop([ds EXCEPT !.dehumidify = TRUE, !.humidify = FALSE],
                   << <<"start", "dehumidify">> >>)
         ELSE Loop(ds, <<>>)
    ELSE LET c1 == IF ds.humidify THEN << <<"stop", "humidify">> >> ELSE <<>>
             c2 == IF ds.dehumidify THEN << <<"stop", "dehumidify">> >>
                   ELSE <<>>
         IN  Loop([ds EXCEPT !.humidify = FALSE, !.dehumidify = FALSE],
                  c1 \o c2)

\* a CO2 loop that logs on every evaluation above the maximum
co2_control_level(ds, d, th) ==
    IF d.co2 > th.co2.max
    THEN Loop([ds EXCEPT !.ventilation = TRUE],
              << <<"start", "ventilation">> >>)
    ELSE IF ds.ventilation
         THEN Loop([ds EXCEPT !.ventilation = FALSE],
                   << <<"stop", "ventilation">> >>)
         ELSE Loop(ds, <<>>)

\* a CO2 loop that never switches ventilation off again
co2_control_latch(ds, d, th) ==
    IF d.co2 > th.co2.max /\ ~ds.ventilation
    THEN Loop([ds EXCEPT !.ventilation = TRUE],
              << <<"start", "ventilation">> >>)
    ELSE Loop(ds, <<>>)

\* a CO2 loop that drives the vent flap with the ventilation
co2_control_flap(ds, d, th) ==
    IF d.co2 > th.co2.max
    THEN IF ~ds.ventilation
         THEN Loop([ds EXCEPT !.ventilation = TRUE, !.close_vent = FALSE],
                   << <<"start", "ventilation">> >>)
         ELSE Loop(ds, <<>>)
    ELSE IF ds.ventilation
         THEN Loop([ds EXCEPT !.ventilation = FALSE, !.close_vent = TRUE],
                   << <<"stop", "ventilation">> >>)
         ELSE Loop(ds, <<>>)

co2_control(ds, d, th) ==
    IF d.co2 > th.co2.max
    THEN IF ~ds.ventilation
         THEN Loop([ds EXCEPT !.ventilation = TRUE],
                   << <<"start", "ventilation">> >>)
         ELSE Loop(ds, <<>>)
    ELSE IF ds.ventilation
         THEN Loop([ds EXCEPT !.ventilation = FALSE],
                   << <<"stop", "ventilation">> >>)
         ELSE Loop(ds, <<>>)

\* auto_control: the three loops in order, then one DEVICE event per entry
\* of the changes list ("for change in changes: self.add_event(...)")
auto_control(ds, d, th) ==
    LET t == temperature_control(ds, d, th)
        h == humidity_control(t.ds, d, th)
        c == co2_control(h.ds, d, th)
        changes == t.changes \o h.changes \o c.changes
    IN  [device_states |-> c.ds,
         log |-> [i \in 1..Len(changes) |->
                     Event("DEVICE", changes[i], "INFO")]]

RECURSIVE Pow2(_)
Pow2(n) == IF n = 0 THEN 1 ELSE 2 * Pow2(n - 1)

\* struct.unpack('<f', b0 b1 b2 b3) for the encodings of integer values:
\* sign bit, 8-bit exponent biased by 127, 23-bit fraction below a hidden 1
unpack_f(b0, b1, b2, b3) ==
    LET sign == b3 \div 128
        e == ((b3 % 128) * 2) + (b2 \div 128)
        m == ((b2 % 128) * 65536) + (b1 * 256) + b0
        sig == 8388608 + m
        mag == IF e = 0 /\ m = 0 THEN 0
               ELSE IF e >= 150 THEN sig * Pow2(e - 150)
               ELSE sig \div Pow2(150 - e)
    IN  IF sign = 1 THEN 0 - mag ELSE mag

\* struct.unpack('<5f', payload[:20])
unpack_5f(payload) ==
    [i \in 1..5 |-> unpack_f(payload[(4 * i) - 3], payload[(4 * i) - 2],
                             payload[(4 * i) - 1], payload[4 * i])]

\* d[key] = value on a dict: the key is added when it is missing
SetItem(d, key, value) ==
    [k \in (DOMAIN d) \cup {key} |-> IF k = key THEN value ELSE d[k]]

decode_device_byte_shifted(device_byte) ==
    [heating |-> (device_byte \div 2) % 2 = 1,
     cooling |-> (device_byte \div 4) % 2 = 1,
     humidify |-> (device_byte \div 8) % 2 = 1,
     dehumidify |-> (device_byte \div 16) % 2 = 1,
     ventilation |-> (device_byte \div 32) % 2 = 1,
     close_vent |-> (device_byte \div 64) % 2 = 1]

\* the six "bool(device_byte & mask)" assignments of on_serial_data
decode_device_byte(device_byte) ==
    [heating |-> BitAnd(device_byte, 1) # 0,
     cooling |-> BitAnd(device_byte, 2) # 0,
     humidify |-> BitAnd(device_byte, 4) # 0,
     dehumidify |-> BitAnd(device_byte, 8) # 0,
     ventilation |-> BitAnd(device_byte, 16) # 0,
     close_vent |-> BitAnd(device_byte, 32) # 0]

\* on_serial_data: the sample and the flags after the frame, and the
\* events it logs
on_serial_data(cmd, payload, d, ds) ==
    IF cmd = 1
    THEN IF Len(payload) >= 20
         THEN LET values == unpack_5f(Slice(payload, 0, 20))
                  d1 == SetItem(d, "temperature", values[1])
                  d2 == SetItem(d1, "humidity", values[2])
                  d3 == SetItem(d2, "co2", values[3])
                  d4 == SetItem(d3, "pm25", values[4])
                  d5 == SetItem(d4, "smoke", values[5])
              IN  [data |-> d5, device_states |-> ds,
                   log |-> <<Event("SERIAL", <<"sensor data received">>,
                                   "INFO")>>]
         ELSE [data |-> d, device_states |-> ds, log |-> <<>>]
    ELSE IF cmd = 2
    THEN IF Len(payload) >= 1
         THEN [data |-> d, device_states |-> decode_device_byte(payload[1]),
               log |-> <<Event("SERIAL", <<"device state received">>,
                               "INFO")>>]
         ELSE [data |-> d, device_states |-> ds, log |-> <<>>]
    ELSE [data |-> d, device_states |-> ds, log |-> <<>>]

\* on_serial_data up to and including its first assignment
on_serial_data_first(cmd, payload, d, ds) ==
    IF cmd = 1 /\ Len(payload) >= 20
    THEN [data |-> SetItem(d, "temperature",
                           unpack_5f(Slice(payload, 0, 20))[1]),
          device_states |-> ds]
    ELSE IF cmd = 2 /\ Len(payload) >= 1
    THEN [data |-> d,
          device_states |-> [ds EXCEPT
                                !.heating = BitAnd(payload[1], 1) # 0]]
    ELSE [data |-> d, device_states |-> ds]

\* on_serial_data after its first assignment: the other assignments and the
\* event
on_serial_data_rest(cmd, payload, d, ds) ==
    IF cmd = 1 /\ Len(payload) >= 20
    THEN LET values == unpack_5f(Slice(payload, 0, 20))
             d2 == SetItem(d, "humidity", values[2])
             d3 == SetItem(d2, "co2", values[3])
             d4 == SetItem(d3, "pm25", values[4])
             d5 == SetItem(d4, "smoke", values[5])
         IN  [data |-> d5, device_states |-> ds,
              log |-> on_serial_data(cmd, payload, d, ds).log]
    ELSE IF cmd = 2 /\ Len(payload) >= 1
    THEN [data |-> d,
          device_states |->
              [decode_device_byte(payload[1]) EXCEPT !.heating = ds.heating],
          log |-> on_serial_data(cmd, payload, d, ds).log]
    ELSE [data |-> d, device_states |-> ds, log |-> <<>>]

\* set_data_mode: the mode after the call, the events it logs and how it
\* ends: (True, ...), (False, ...) or, when the return statement formats
\* mode_name, which is assigned only if old_mode != mode, UnboundLocalError
set_data_mode(mode, old_mode, old_use, conn) ==
    IF mode \in {"serial", "simulation"}
    THEN [data_mode |-> mode,
          use_simulation |-> (mode = "simulation"),
          log |-> IF old_mode # mode
                  THEN <<Event("SYSTEM", <<"data mode", mode>>, "INFO")>>
                       \o (IF mode = "serial" /\ ~conn
                           THEN <<Event("WARNING",
                                        <<"serial mode, not connected">>,
                                        "WARNING")>>
                           ELSE <<>>)
                  ELSE <<>>,
          returned |-> IF old_mode # mode THEN <<"success">>
                       ELSE <<"raised">>]
    ELSE [data_mode |-> old_mode, use_simulation |-> old_use, log |-> <<>>,
          returned |-> <<"failure">>]

control_device_exclusive(device, action, ds) ==
    IF device \in DOMAIN ds
    THEN [device_states |->
             [d \in DOMAIN ds |->
                 IF d = device THEN action = "on"
                 ELSE IF action = "on"
                         /\ {d, device} \in {{"heating", "cooling"},
                                             {"humidify", "dehumidify"}}
                      THEN FALSE
                      ELSE ds[d]],
          log |-> IF ds[device] # (action = "on")
                  THEN <<Event("MANUAL", <<"manual", action, device>>,
                               "INFO")>>
                  ELSE <<>>]
    ELSE [device_states |-> ds, log |-> <<>>]

\* control_device (POST /api/control): the flags after the request and the
\* event it logs
control_device(device, action, ds) ==
    IF device \in DOMAIN ds
    THEN LET old_state == ds[device]
             new == [ds EXCEPT ![device] = (action = "on")]
         IN  [device_states |-> new,
              log |-> IF old_state # new[device]
                      THEN <<Event("MANUAL",
                                   <<"manual",
                                     IF action = "on" THEN "start"
                                     ELSE "stop",
                                     device>>,
                                   "INFO")>>
                      ELSE <<>>]
    ELSE [device_states |-> ds, log |-> <<>>]

\* update_threshold (POST /api/threshold): the thresholds after the request
\* and the event it logs
update_threshold(sensor, threshold_type, value, th) ==
    IF /\ sensor \in DOMAIN th
       /\ threshold_type \in {"min", "max"}
       /\ threshold_type \in DOMAIN th[sensor]
    THEN [thresholds |-> [th EXCEPT ![sensor][threshold_type] = value],
          log |-> <<Event("SYSTEM",
                          <<"threshold", sensor, threshold_type,
                            ToString(value)>>,
                          "INFO")>>]
    ELSE [thresholds |-> th, log |-> <<>>]

(***************************************************************************)
(* SerialManager.send_command and EnvironmentData.send_device_command.     *)
(* conn is SerialManager.connected, port the state of SerialManager.ser,   *)
(* write_ok whether ser.write returns instead of raising.  wrote is the    *)
(* frame handed to ser.write, <<>> when ser.write is not called.           *)
(***************************************************************************)
send_command_unchecked(cmd, payload, conn, port, write_ok) ==
    [ok |-> port = "open" /\ write_ok,
     msg |-> IF port = "open" /\ write_ok THEN "Command sent"
             ELSE "Send failed",
     wrote |-> pack_frame(cmd, payload)]

send_command(cmd, payload, conn, port, write_ok) ==
    IF ~conn \/ port = "none"
    THEN [ok |-> FALSE, msg |-> "Not connected", wrote |-> <<>>]
    ELSE LET frame == pack_frame(cmd, payload)
         IN  IF port = "open" /\ write_ok
             THEN [ok |-> TRUE, msg |-> "Command sent", wrote |-> frame]
             ELSE [ok |-> FALSE, msg |-> "Send failed", wrote |-> frame]

\* device_map of send_device_command
device_map ==
    [heating |-> 1, cooling |-> 2, humidify |-> 4, dehumidify |-> 8,
     ventilation |-> 16, close_vent |-> 32]

RECURSIVE OrMasks(_, _)
\* current_state |= device_map[dev] for each dev of devs that is on in eff:
\* the masks are distinct bits, so OR-ing them adds them
OrMasks(devs, eff) ==
    IF devs = {} THEN 0
    ELSE LET dev == CHOOSE x \in devs : TRUE
         IN  (IF eff[dev] /\ dev \in DOMAIN device_map
              THEN device_map[dev] ELSE 0)
             + OrMasks(devs \ {dev}, eff)

status_byte_recorded(device, state, ds) == OrMasks(DOMAIN ds, ds)

\* a status byte that carries the named device alone
status_byte_single(device, state, ds) ==
    IF state /\ device \in DOMAIN device_map THEN device_map[device] ELSE 0

\* the loop of send_device_command over device_states.items()
status_byte(device, state, ds) ==
    OrMasks(DOMAIN ds,
            [dev \in DOMAIN ds |-> IF dev = device THEN state ELSE ds[dev]])

\* send_device_command: what it returns, the frame it hands to ser.write
\* and the event it logs
send_device_command(device, state, ds, conn, port, write_ok) ==
    IF ~conn
    THEN [ok |-> FALSE, msg |-> "serial not connected", wrote |-> <<>>,
          log |-> <<>>]
    ELSE IF device \in DOMAIN device_map
    THEN LET payload == <<status_byte(device, state, ds)>>
             r == send_command(3, payload, conn, port, write_ok)
         IN  [ok |-> r.ok, msg |-> r.msg, wrote |-> r.wrote,
              log |-> IF r.ok
                      THEN <<Event("SERIAL",
                                   <<"device command", device,
                                     ToString(state)>>,
                                   "INFO")>>
                      ELSE <<>>]
    ELSE [ok |-> FALSE, msg |-> "unknown device", wrote |-> <<>>,
          log |-> <<>>]

(***************************************************************************)
(* SerialManager.list_ports, connect and disconnect.  A reader thread is   *)
(* "new" before it is started, at "check" when it is about to evaluate the *)
(* condition of the while loop of _rx_worker, in "body" inside the loop,   *)
(* "done" after the condition was false and "failed" after the except      *)
(* clause broke out of the loop.                                           *)
(***************************************************************************)
list_ports_unguarded(avail, system_ports, ok) ==
    [ports |-> IF ok THEN system_ports ELSE <<>>, raised |-> FALSE]

\* list_ports: system_ports is what comports() lists, ok whether it returns
list_ports(avail, system_ports, ok) ==
    IF ~avail THEN [ports |-> <<>>, raised |-> FALSE]
    ELSE IF ok THEN [ports |-> system_ports, raised |-> FALSE]
    ELSE [ports |-> <<>>, raised |-> FALSE]

\* rx_thread.join(timeout=1): a reader that is at the loop condition when the
\* stop flag is up leaves within the second if joined; the join times out
\* otherwise, and when the reader is still inside the loop body a second later
join(rs, t, joined) ==
    IF t # 0 /\ rs[t] = "check" /\ joined THEN [rs EXCEPT ![t] = "done"]
    ELSE rs

disconnect_leaveopen(port, t, rs, joined) ==
    [connected |-> FALSE, stop_flag |-> TRUE, readers |-> rs, ser |-> port,
     ok |-> TRUE, msg |-> "Disconnected", raised |-> FALSE]

\* disconnect
disconnect(port, t, rs, joined) ==
    [connected |-> FALSE,
     stop_flag |-> TRUE,
     readers |-> join(rs, t, joined),
     ser |-> IF port = "open" THEN "closed" ELSE port,
     ok |-> TRUE, msg |-> "Disconnected", raised |-> FALSE]

connect_flag_first(avail, port_ok, conn, port, stop, t, rs, joined, fresh) ==
    IF avail /\ port_ok
    THEN [connected |-> TRUE, stop_flag |-> FALSE,
          readers |-> [rs EXCEPT ![fresh] = "check"], ser |-> "open",
          rx_thread |-> fresh, ok |-> TRUE, msg |-> "Connected",
          raised |-> FALSE, started |-> fresh]
    ELSE [connected |-> avail, stop_flag |-> FALSE, readers |-> rs,
          ser |-> IF port = "open" THEN "closed" ELSE port, rx_thread |-> t,
          ok |-> FALSE, msg |-> "Connection failed", raised |-> FALSE,
          started |-> 0]

\* connect: port_ok is whether serial.Serial(port, baudrate) opens the device,
\* fresh the thread object a successful call creates
connect(avail, port_ok, conn, port, stop, t, rs, joined, fresh) ==
    IF ~avail
    THEN [connected |-> conn, stop_flag |-> stop, readers |-> rs,
          ser |-> port, rx_thread |-> t, ok |-> FALSE,
          msg |-> "Serial library not available", raised |-> FALSE,
          started |-> 0]
    ELSE LET d == IF port = "open" THEN disconnect(port, t, rs, joined)
                  ELSE [connected |-> conn, stop_flag |-> stop,
                        readers |-> rs, ser |-> port]
         IN  IF port_ok
             THEN [connected |-> TRUE, stop_flag |-> FALSE,
                   readers |-> [d.readers EXCEPT ![fresh] = "check"],
                   ser |-> "open", rx_thread |-> fresh, ok |-> TRUE,
                   msg |-> "Connected", raised |-> FALSE, started |-> fresh]
             ELSE [connected |-> d.connected, stop_flag |-> d.stop_flag,
                   readers |-> d.readers, ser |-> d.ser, rx_thread |-> t,
                   ok |-> FALSE, msg |-> "Connection failed",
                   raised |-> FALSE, started |-> 0]

rx_except_disconnects(conn) == FALSE

\* the except clause of _rx_worker prints the error and breaks: what it
\* leaves of SerialManager.connected
rx_except(conn) == conn

\* the condition of the while loop of _rx_worker
rx_running(stop, port) == ~stop /\ port = "open"

RECURSIVE rx_feed_stop(_, _, _, _, _)
\* a loop that leaves the rest of a read alone once a frame was delivered
rx_feed_stop(p, bytes, d, ds, ev) ==
    IF bytes = <<>>
    THEN [parser |-> p, data |-> d, device_states |-> ds, events |-> ev,
          frames |-> <<>>]
    ELSE IF Len(bytes) = 1
    THEN LET r == feed(p, bytes[1])
         IN  IF r.result = None
             THEN [parser |-> r.parser, data |-> d, device_states |-> ds,
                   events |-> ev, frames |-> <<>>]
             ELSE LET h == on_serial_data(r.result[1], r.result[2], d, ds)
                  IN  [parser |-> r.parser, data |-> h.data,
                       device_states |-> h.device_states,
                       events |-> add_events(ev, h.log),
                       frames |-> <<r.result>>]
    ELSE LET k == Len(bytes) \div 2
             first == rx_feed_stop(p, SubSeq(bytes, 1, k), d, ds, ev)
         IN  IF first.frames # <<>> THEN first
             ELSE rx_feed_stop(first.parser, SubSeq(bytes, k + 1, Len(bytes)),
                               first.data, first.device_states, first.events)

RECURSIVE rx_feed(_, _, _, _, _)
\* "for byte in data: result = parser.feed(byte); if result: callback(...)"
\* with on_serial_data as the callback: over one byte it is one feed and the
\* callback on a frame, over more bytes it is the loop over the first half
\* followed by the loop over the second half from the state reached
rx_feed(p, bytes, d, ds, ev) ==
    IF bytes = <<>>
    THEN [parser |-> p, data |-> d, device_states |-> ds, events |-> ev,
          frames |-> <<>>]
    ELSE IF Len(bytes) = 1
    THEN LET r == feed(p, bytes[1])
         IN  IF r.result = None
             THEN [parser |-> r.parser, data |-> d, device_states |-> ds,
                   events |-> ev, frames |-> <<>>]
             ELSE LET h == on_serial_data(r.result[1], r.result[2], d, ds)
                  IN  [parser |-> r.parser, data |-> h.data,
                       device_states |-> h.device_states,
                       events |-> add_events(ev, h.log),
                       frames |-> <<r.result>>]
    ELSE LET k == Len(bytes) \div 2
             first == rx_feed(p, SubSeq(bytes, 1, k), d, ds, ev)
             rest == rx_feed(first.parser, SubSeq(bytes, k + 1, Len(bytes)),
                             first.data, first.device_states, first.events)
         IN  IF first.frames = <<>> THEN rest
             ELSE [rest EXCEPT !.frames = first.frames \o @]

(***************************************************************************)
(* The state machine.                                                      *)
(***************************************************************************)
NoCall == [byte |-> 0, state |-> -1, value |-> None, since |-> 0]

NoStream == [kind |-> "none", frames |-> <<>>, bad |-> 0, read |-> 0]

\* the part of the state a transport call is made in
Before ==
    [connected |-> connected, ser |-> ser, stop_flag |-> stop_flag,
     rx_thread |-> rx_thread, readers |-> readers, parser |-> parser,
     device_states |-> device_states, events |-> events]

Called(op, args, ok, msg, raised, wrote, ports, started) ==
    [op |-> op, args |-> args, ok |-> ok, msg |-> msg, raised |-> raised,
     wrote |-> wrote, ports |-> ports, started |-> started,
     before |-> Before]

NoTransportCall ==
    [op |-> "none", args |-> <<>>, ok |-> FALSE, msg |-> "",
     raised |-> FALSE, wrote |-> <<>>, ports |-> <<>>, started |-> 0,
     before |-> [connected |-> FALSE, ser |-> "none", stop_flag |-> FALSE,
                 rx_thread |-> 0, readers |-> [t \in 1..MaxReaders |-> "new"],
                 parser |-> FrameParser, device_states |-> InitDeviceStates,
                 events |-> <<>>]]

\* a step that is not a call on the transport
NoTransportCallMade ==
    /\ call' = NoTransportCall
    /\ UNCHANGED <<SERIAL_AVAILABLE, ser, stop_flag, rx_thread, readers>>

Observed(op, before, appended, calls, same) ==
    [op |-> op, before |-> before, appended |-> appended, calls |-> calls,
     same |-> same, input |-> <<>>, returned |-> <<>>]

\* the observation of an on_serial_data call: the frame it was given, the
\* flags before it, the events it appended, whether it left the sample as
\* it was
Handled(cmd, payload, before, appended, same) ==
    [Observed("on_serial_data", before, appended, 0, same)
        EXCEPT !.input = <<cmd, payload>>]

Init ==
    /\ parser = FrameParser
    /\ result = NoCall
    /\ wire = <<>>
    /\ sent = NoStream
    /\ out = <<>>
    /\ data = InitData
    /\ device_states = InitDeviceStates
    /\ thresholds = InitThresholds
    /\ events = <<>>
    /\ data_mode = "simulation"
    /\ use_simulation = TRUE
    /\ connected = FALSE
    /\ data_to_send = <<>>
    /\ last = Observed("init", InitDeviceStates, <<>>, 0, FALSE)
    /\ SERIAL_AVAILABLE \in BOOLEAN
    /\ ser = "none"
    /\ stop_flag = FALSE
    /\ rx_thread = 0
    /\ readers = [t \in 1..MaxReaders |-> "new"]
    /\ call = NoTransportCall
    /\ tick_pc = "idle"
    /\ handler = <<>>

(* ---- inputs ---- *)
\* bytes a noisy line delivers
NoiseBytes == {0, 1, 2, 3, EOF, SOF}

\* LEN bytes a noisy line delivers: the frames they announce stay short
NoiseLens == 0..(MaxPayloadLen + 1)

\* commands and payload bytes of the frames of a stream under test
StreamCmds == {1, SOF}

StreamBytes == {EOF, SOF}

Payloads(bytes, n) == UNION {[1..k -> bytes] : k \in 0..n}

StreamFrames ==
    {<<cmd, payload>> : cmd \in StreamCmds,
                        payload \in Payloads(StreamBytes, MaxPayloadLen)}

\* the valid frames that follow a corrupted one
SecondFrames == {<<2, <<>>>>, <<SOF, <<EOF>>>>, <<1, <<SOF, EOF>>>>}

\* bytes that arrive in place of a checksum
BadChecksums == {0, SOF, EOF}

\* what the simulation branch of simulate_data can compute: temperature in
\* 21..29, humidity in 48..72, co2 in 300..670, light in 170..630, smoke in
\* 0..10
SimSamples ==
    {[temperature |-> 25, humidity |-> 60, co2 |-> 400, light |-> 350,
      smoke |-> 5],
     [temperature |-> 28, humidity |-> 60, co2 |-> 400, light |-> 350,
      smoke |-> 5],
     [temperature |-> 22, humidity |-> 72, co2 |-> 650, light |-> 350,
      smoke |-> 5]}

\* sensor reports (command 0x01): five little-endian floats
\*   18, 30, 1200, 10, 0   /   30, 80, 400, 10, 0   /   22, 55, 500, 10, 0
\* and one report that is too short
SensorPayloads ==
    {<<0, 0, 144, 65, 0, 0, 240, 65, 0, 0, 150, 68, 0, 0, 32, 65,
       0, 0, 0, 0>>,
     <<0, 0, 240, 65, 0, 0, 160, 66, 0, 0, 200, 67, 0, 0, 32, 65,
       0, 0, 0, 0>>,
     <<0, 0, 176, 65, 0, 0, 92, 66, 0, 0, 250, 67, 0, 0, 32, 65,
       0, 0, 0, 0>>,
     <<0, 0, 144, 65>>}

\* device-state reports (command 0x02): status bytes, and an empty payload
StatusPayloads ==
    {<<1>>, <<2>>, <<3>>, <<12>>, <<14>>, <<16>>, <<63>>, <<192>>, <<>>}

\* a frame of a command the handler does not know
OtherFrames == {<<3, <<1>>>>}

SensorFrames == {<<1, payload>> : payload \in SensorPayloads}

StatusFrames == {<<2, payload>> : payload \in StatusPayloads}

ControlRequests ==
    {<<"heating", "on">>, <<"cooling", "on">>, <<"cooling", "off">>,
     <<"dehumidify", "on">>, <<"ventilation", "on">>, <<"fan", "on">>}

ThresholdRequests ==
    {<<"temperature", "min", 27>>, <<"temperature", "max", 21>>,
     <<"humidity", "max", 50>>, <<"co2", "max", 300>>,
     <<"co2", "min", 300>>, <<"pm25", "max", 5>>}

Modes == {"serial", "simulation", "manual"}

\* the samples within the thresholds: a tick that draws one switches nothing
QuietSamples ==
    {s \in SimSamples :
        /\ s.temperature >= InitThresholds.temperature.min
        /\ s.temperature <= InitThresholds.temperature.max
        /\ s.humidity >= InitThresholds.humidity.min
        /\ s.humidity <= InitThresholds.humidity.max
        /\ s.co2 <= InitThresholds.co2.max}

\* command-0x01 payloads shorter than five floats: none, one float, 19 bytes
ShortSensorPayloads ==
    {<<>>, <<0, 0, 144, 65>>,
     <<0, 0, 144, 65, 0, 0, 240, 65, 0, 0, 150, 68, 0, 0, 32, 65, 0, 0, 0>>}

\* every status byte, alone or followed by a second payload byte, and the
\* empty payload
AllStatusPayloads ==
    {<<v>> : v \in 0..255} \cup {<<v, 7>> : v \in {0, 21, 255}} \cup {<<>>}

\* what comports() may list
SystemPorts == {<<>>, <<"COM3">>}

\* frames the device reports over an open port
ReportFrames == {<<2, <<16>>>>, <<2, <<3>>>>}

\* the status bytes that report every combination of the six flags
StatusBytes == 0..63

\* frames handed to send_command
CommandRequests == {<<3, <<1>>>>, <<1, <<>>>>}

\* devices named in send_device_command
CommandDevices == {"cooling", "fan"}

\* messages passed to add_event: the one that follows the newest entry of
\* the log, so that neighbours differ and the log shows which entry went
LogMessages ==
    {i \in 0..(MaxMessages - 1) :
        IF events = <<>> THEN i = 0
        ELSE <<"event", ToString((i + MaxMessages - 1) % MaxMessages)>>
             = events[Len(events)].message}

(* ---- FrameParser ---- *)
\* parser.feed(b)
Feed(b) ==
    LET r == feed(parser, b)
    IN  /\ parser' = r.parser
        /\ result' = [byte |-> b, state |-> parser.state, value |-> r.result,
                      since |-> IF parser.state = 0 THEN 0
                                ELSE result.since + 1]

\* a byte of line noise reaches the parser
Noise(b) ==
    /\ parser.state = 1 => b \in NoiseLens
    /\ Feed(b)
    /\ UNCHANGED <<wire, sent, out>>
    /\ UNCHANGED envVars
    /\ NoTransportCallMade
    /\ UNCHANGED raceVars

\* every LEN byte, and for the other fields of a frame one value that is
\* correct and one that is not; CMD and payload bytes are fixed
LenBytes == 0..255

SweepBytes(p) ==
    CASE p.state = 0 -> {SOF, 0}
      [] p.state = 1 -> LenBytes
      [] p.state = 2 -> {1}
      [] p.state = 21 -> {SOF}
      [] p.state = 3 -> {calc_cs(p.buf), SOF}
      [] p.state = 4 -> {EOF, SOF}

\* a byte of a stream that sweeps the LEN field reaches the parser of a
\* reader thread: idle bytes, then a start of frame and what follows it
Sweep(b) ==
    /\ SERIAL_AVAILABLE
    /\ parser.state = 0 => result.state \in {-1, 0}
    /\ b \in SweepBytes(parser)
    /\ Feed(b)
    /\ UNCHANGED <<wire, sent, out>>
    /\ UNCHANGED envVars
    /\ NoTransportCallMade
    /\ UNCHANGED raceVars

\* the device sends pack_frame(cmd, payload) to a parser that is Searching
PackFrame(cmd, payload) ==
    /\ wire = <<>>
    /\ parser.state = 0
    /\ wire' = pack_frame(cmd, payload)
    /\ sent' = [kind |-> "frame", frames |-> << <<cmd, payload>> >>,
                bad |-> 0, read |-> 0]
    /\ out' = <<>>
    /\ UNCHANGED <<parser, result>>
    /\ UNCHANGED envVars
    /\ NoTransportCallMade
    /\ UNCHANGED raceVars

\* frame with its checksum byte (the last but one) replaced by bad
Corrupt(frame, bad) == [frame EXCEPT ![Len(frame) - 1] = bad]

\* a frame whose checksum byte arrives as bad, then a valid frame
PackCorruptThenValid(f1, bad, f2) ==
    /\ wire = <<>>
    /\ parser.state = 0
    /\ bad # calc_cs(<<1 + Len(f1[2]), f1[1]>> \o f1[2])
    /\ wire' = Corrupt(pack_frame(f1[1], f1[2]), bad)
                 \o pack_frame(f2[1], f2[2])
    /\ sent' = [kind |-> "resync", frames |-> <<f1, f2>>, bad |-> bad,
                read |-> 0]
    /\ out' = <<>>
    /\ UNCHANGED <<parser, result>>
    /\ UNCHANGED envVars
    /\ NoTransportCallMade
    /\ UNCHANGED raceVars

\* the next byte of the stream is fed to the parser
FeedWire ==
    /\ wire # <<>>
    /\ Feed(Head(wire))
    /\ wire' = Tail(wire)
    /\ out' = Append(out, result'.value)
    /\ sent' = sent
    /\ UNCHANGED envVars
    /\ NoTransportCallMade
    /\ UNCHANGED raceVars

(* ---- EnvironmentData and the request handlers ---- *)
\* the data_update payload's 'data': <<v>> is the number v, <<>> is null
Published_modeonly(d, mode, conn) ==
    IF mode = "serial"
    THEN [k \in SampleKeys |-> <<>>]
    ELSE [k \in DOMAIN d |-> <<d[k]>>]

Published(d, mode, conn) ==
    IF mode = "serial" /\ ~conn
    THEN [k \in SampleKeys |-> <<>>]
    ELSE [k \in DOMAIN d |-> <<d[k]>>]

\* one iteration of the simulate_data loop, the simulation drawing sample s
SimulateData(s) ==
    /\ last.calls < MaxCalls
    /\ data' = IF data_mode = "simulation"
               THEN [k \in DOMAIN data |->
                        IF k \in SampleKeys THEN s[k] ELSE data[k]]
               ELSE data
    /\ LET r == auto_control(device_states, data', thresholds)
       IN  /\ device_states' = r.device_states
           /\ events' = add_events(events, r.log)
           /\ last' = Observed("auto_control", device_states, r.log,
                               IF last.op = "auto_control"
                               THEN last.calls + 1 ELSE 1,
                               data' = data)
    /\ data_to_send' = Published(data', data_mode, connected)
    /\ UNCHANGED <<thresholds, data_mode, use_simulation, connected>>
    /\ UNCHANGED parserVars
    /\ NoTransportCallMade
    /\ UNCHANGED raceVars

\* the reader's callback: on_serial_data(cmd, payload)
OnSerialData(cmd, payload) ==
    /\ Len(events) < MaxLog
    /\ LET r == on_serial_data(cmd, payload, data, device_states)
       IN  /\ data' = r.data
           /\ device_states' = r.device_states
           /\ events' = add_events(events, r.log)
           /\ last' = Handled(cmd, payload, device_states, r.log,
                             r.data = data)
    /\ UNCHANGED <<thresholds, data_mode, use_simulation, connected,
                   data_to_send>>
    /\ UNCHANGED parserVars
    /\ NoTransportCallMade
    /\ UNCHANGED raceVars

\* POST /api/data/mode
SetDataMode(mode) ==
    /\ Len(events) < MaxLog
    /\ LET r == set_data_mode(mode, data_mode, use_simulation, connected)
       IN  /\ data_mode' = r.data_mode
           /\ use_simulation' = r.use_simulation
           /\ events' = add_events(events, r.log)
           /\ last' = [Observed("set_data_mode", device_states, r.log, 0,
                                FALSE)
                          EXCEPT !.input = <<mode, data_mode>>,
                                 !.returned = r.returned]
    /\ UNCHANGED <<data, device_states, thresholds, connected, data_to_send>>
    /\ UNCHANGED parserVars
    /\ NoTransportCallMade
    /\ UNCHANGED raceVars

\* POST /api/control
ControlDevice(device, action) ==
    /\ Len(events) < MaxLog
    /\ LET r == control_device(device, action, device_states)
       IN  /\ device_states' = r.device_states
           /\ events' = add_events(events, r.log)
           /\ last' = Observed("control_device", device_states, r.log, 0,
                               FALSE)
    /\ UNCHANGED <<data, thresholds, data_mode, use_simulation, connected,
                   data_to_send>>
    /\ UNCHANGED parserVars
    /\ NoTransportCallMade
    /\ UNCHANGED raceVars

\* POST /api/threshold
UpdateThreshold(sensor, threshold_type, value) ==
    /\ Len(events) < MaxLog
    /\ LET r == update_threshold(sensor, threshold_type, value, thresholds)
       IN  /\ thresholds' = r.thresholds
           /\ events' = add_events(events, r.log)
           /\ last' = Observed("update_threshold", device_states, r.log, 0,
                               FALSE)
    /\ UNCHANGED <<data, device_states, data_mode, use_simulation, connected,
                   data_to_send>>
    /\ UNCHANGED parserVars
    /\ NoTransportCallMade
    /\ UNCHANGED raceVars

(* ---- SerialManager and the reader thread ---- *)
\* the thread object the next successful connect creates, 0 when the run has
\* used up its threads
NextReader ==
    IF \E t \in 1..MaxReaders : readers[t] = "new"
    THEN CHOOSE t \in 1..MaxReaders :
            /\ readers[t] = "new"
            /\ \A u \in 1..MaxReaders : readers[u] = "new" => t <= u
    ELSE 0

\* GET /api/serial/ports -> serial_manager.list_ports()
ListPorts(system_ports, ok) ==
    /\ LET r == list_ports(SERIAL_AVAILABLE, system_ports, ok)
       IN  call' = Called("list_ports", system_ports, ~r.raised, "", r.raised, <<>>,
                          r.ports, 0)
    /\ UNCHANGED <<SERIAL_AVAILABLE, ser, stop_flag, rx_thread, readers>>
    /\ UNCHANGED parserVars
    /\ UNCHANGED envVars
    /\ UNCHANGED raceVars

\* serial_manager.connect(port, baudrate)
Connect(port_ok, joined) ==
    /\ (SERIAL_AVAILABLE /\ port_ok) => NextReader # 0
    /\ LET r == connect(SERIAL_AVAILABLE, port_ok, connected, ser, stop_flag,
                        rx_thread, readers, joined, NextReader)
       IN  /\ connected' = r.connected
           /\ stop_flag' = r.stop_flag
           /\ readers' = r.readers
           /\ ser' = r.ser
           /\ rx_thread' = r.rx_thread
           /\ wire' = IF ser = "open" /\ SERIAL_AVAILABLE THEN <<>> ELSE wire
           /\ call' = Called("connect",
                             <<IF port_ok THEN "port" ELSE "no such port">>,
                             r.ok, r.msg, r.raised, <<>>, <<>>, r.started)
    /\ UNCHANGED <<SERIAL_AVAILABLE, parser, result, sent, out>>
    /\ UNCHANGED <<data, device_states, thresholds, events, data_mode,
                   use_simulation, data_to_send, last>>
    /\ UNCHANGED raceVars

\* serial_manager.disconnect()
Disconnect(joined) ==
    /\ LET r == disconnect(ser, rx_thread, readers, joined)
       IN  /\ connected' = r.connected
           /\ stop_flag' = r.stop_flag
           /\ readers' = r.readers
           /\ ser' = r.ser
           /\ wire' = IF ser = "open" THEN <<>> ELSE wire
           /\ call' = Called("disconnect", <<>>, r.ok, r.msg, r.raised, <<>>,
                             <<>>, 0)
    /\ UNCHANGED <<SERIAL_AVAILABLE, rx_thread, parser, result, sent, out>>
    /\ UNCHANGED <<data, device_states, thresholds, events, data_mode,
                   use_simulation, data_to_send, last>>
    /\ UNCHANGED raceVars

\* serial_manager.send_command(cmd, payload)
SendCommand(cmd, payload, write_ok) ==
    /\ LET r == send_command(cmd, payload, connected, ser, write_ok)
       IN  call' = Called("send_command", <<ToString(cmd)>>, r.ok, r.msg,
                          FALSE, r.wrote, <<>>, 0)
    /\ UNCHANGED <<SERIAL_AVAILABLE, ser, stop_flag, rx_thread, readers>>
    /\ UNCHANGED parserVars
    /\ UNCHANGED envVars
    /\ UNCHANGED raceVars

\* env_data.send_device_command(device, state)
SendDeviceCommand(device, state, write_ok) ==
    /\ Len(events) < MaxLog
    /\ LET r == send_device_command(device, state, device_states, connected,
                                    ser, write_ok)
       IN  /\ events' = add_events(events, r.log)
           /\ last' = Observed("send_device_command", device_states, r.log,
                               0, FALSE)
           /\ call' = Called("send_device_command",
                             <<device, ToString(state)>>, r.ok, r.msg, FALSE,
                             r.wrote, <<>>, 0)
    /\ UNCHANGED <<SERIAL_AVAILABLE, ser, stop_flag, rx_thread, readers>>
    /\ UNCHANGED <<data, device_states, thresholds, data_mode, use_simulation,
                   connected, data_to_send>>
    /\ UNCHANGED parserVars
    /\ UNCHANGED raceVars

\* reader t evaluates "while not self.stop_flag and self.ser and
\* self.ser.is_open"
RxCheck(t) ==
    /\ readers[t] = "check"
    /\ readers' = [readers EXCEPT ![t] = IF rx_running(stop_flag, ser)
                                         THEN "body" ELSE "done"]
    /\ call' = NoTransportCall
    /\ UNCHANGED <<SERIAL_AVAILABLE, ser, stop_flag, rx_thread>>
    /\ UNCHANGED parserVars
    /\ UNCHANGED envVars
    /\ UNCHANGED raceVars

\* how many bytes in_waiting may report when w is on its way to the port
ReadLens(w) == {0, Len(w)} \cup {n \in {3} : n < Len(w)}

\* reader t runs the body of the loop once: it reads the n bytes waiting and
\* feeds them, or in_waiting / read raise (always so on a closed port)
RxBody(t, n, io_ok) ==
    /\ readers[t] = "body"
    /\ IF ser = "open" /\ io_ok
       THEN LET r == rx_feed(parser, SubSeq(wire, 1, n), data, device_states,
                             events)
            IN  /\ parser' = r.parser
                /\ data' = r.data
                /\ device_states' = r.device_states
                /\ events' = r.events
                /\ wire' = SubSeq(wire, n + 1, Len(wire))
                /\ last' = IF r.frames = <<>> THEN last
                           ELSE Handled(r.frames[Len(r.frames)][1],
                                        r.frames[Len(r.frames)][2],
                                        device_states,
                                        SubSeq(r.events, Len(events) + 1,
                                               Len(r.events)),
                                        r.data = data)
                /\ readers' = [readers EXCEPT ![t] = "check"]
                /\ connected' = connected
                /\ IF sent.kind = "stream"
                   THEN /\ out' = out \o r.frames
                        /\ sent' = [sent EXCEPT !.read = @ + n]
                   ELSE UNCHANGED <<sent, out>>
       ELSE /\ readers' = [readers EXCEPT ![t] = "failed"]
            /\ connected' = rx_except(connected)
            /\ UNCHANGED <<parser, data, device_states, events, wire, last>>
            /\ UNCHANGED <<sent, out>>
    /\ call' = NoTransportCall
    /\ UNCHANGED <<SERIAL_AVAILABLE, ser, stop_flag, rx_thread>>
    /\ UNCHANGED result
    /\ UNCHANGED <<thresholds, data_mode, use_simulation, data_to_send>>
    /\ UNCHANGED raceVars

\* the device puts one frame on the line of the open port
DeviceSends(cmd, payload) ==
    /\ ser = "open"
    /\ wire = <<>>
    /\ Len(events) < MaxLog
    /\ wire' = pack_frame(cmd, payload)
    /\ UNCHANGED <<parser, result, sent, out>>
    /\ UNCHANGED envVars
    /\ NoTransportCallMade
    /\ UNCHANGED raceVars

\* the frames of a stream read by a reader thread: no payload, a payload
\* that is a start-of-frame byte, a payload that ends like a frame
ReaderFrames == {<<2, <<>>>>, <<2, <<SOF>>>>, <<SOF, <<SOF, 0, EOF>>>>}

\* the longest frame pack_frame makes: a payload of 254 bytes
LongestFrame == <<2, [i \in 1..254 |-> EOF]>>

\* the streams of 1..MaxFrames frames, and the longest frame between two
\* short ones
ReaderStreams ==
    UNION {[1..n -> ReaderFrames] : n \in 1..MaxFrames}
        \cup {<< <<2, <<>>>>, LongestFrame, <<2, <<SOF>>>> >>}

RECURSIVE PackAll(_)
\* the concatenation of pack_frame(cmd, payload) over the frames of a stream
PackAll(frames) ==
    IF frames = <<>> THEN <<>>
    ELSE pack_frame(Head(frames)[1], Head(frames)[2]) \o PackAll(Tail(frames))

\* how many bytes a read of the stream w may take
StreamReadLens(w) ==
    {n \in 0..Len(w) : n <= MaxRead \/ n = 128 \/ n = Len(w)}

\* the device sends a stream of frames on the line of the open port, the
\* parser being in state 0
DeviceStream(frames) ==
    /\ ser = "open"
    /\ wire = <<>>
    /\ parser.state = 0
    /\ sent.kind = "none"
    /\ wire' = PackAll(frames)
    /\ sent' = [kind |-> "stream", frames |-> frames, bad |-> 0, read |-> 0]
    /\ out' = <<>>
    /\ UNCHANGED <<parser, result>>
    /\ UNCHANGED envVars
    /\ NoTransportCallMade
    /\ UNCHANGED raceVars

(* ---- the simulate_data thread next to the reader thread ---- *)
\* the simulate_data thread writes the sample s (lines 233-254)
TickSample(s) ==
    /\ tick_pc = "idle"
    /\ last.calls < MaxCalls
    /\ data' = IF data_mode = "simulation"
               THEN [k \in DOMAIN data |->
                        IF k \in SampleKeys THEN s[k] ELSE data[k]]
               ELSE data
    /\ tick_pc' = "sampled"
    /\ UNCHANGED <<device_states, thresholds, events, data_mode,
                   use_simulation, connected, data_to_send, last, handler>>
    /\ UNCHANGED parserVars
    /\ NoTransportCallMade

\* the simulate_data thread calls auto_control and emits data_update
\* (lines 257-278)
TickControl ==
    /\ tick_pc = "sampled"
    /\ LET r == auto_control(device_states, data, thresholds)
       IN  /\ device_states' = r.device_states
           /\ events' = add_events(events, r.log)
           /\ last' = Observed("auto_control", device_states, r.log,
                               IF last.op = "auto_control"
                               THEN last.calls + 1 ELSE 1,
                               FALSE)
    /\ data_to_send' = Published(data, data_mode, connected)
    /\ tick_pc' = "idle"
    /\ UNCHANGED <<data, thresholds, data_mode, use_simulation, connected,
                   handler>>
    /\ UNCHANGED parserVars
    /\ NoTransportCallMade

\* the reader thread enters on_serial_data(cmd, payload) and makes its first
\* assignment
HandleFirst(cmd, payload) ==
    /\ handler = <<>>
    /\ Len(events) < MaxLog
    /\ LET r == on_serial_data_first(cmd, payload, data, device_states)
       IN  /\ data' = r.data
           /\ device_states' = r.device_states
    /\ handler' = <<cmd, payload>>
    /\ UNCHANGED <<thresholds, events, data_mode, use_simulation, connected,
                   data_to_send, last, tick_pc>>
    /\ UNCHANGED parserVars
    /\ NoTransportCallMade

\* the reader thread runs on_serial_data to its end
HandleRest ==
    /\ handler # <<>>
    /\ LET r == on_serial_data_rest(handler[1], handler[2], data,
                                    device_states)
       IN  /\ data' = r.data
           /\ device_states' = r.device_states
           /\ events' = add_events(events, r.log)
           /\ last' = Handled(handler[1], handler[2], device_states, r.log,
                             FALSE)
    /\ handler' = <<>>
    /\ UNCHANGED <<thresholds, data_mode, use_simulation, connected,
                   data_to_send, tick_pc>>
    /\ UNCHANGED parserVars
    /\ NoTransportCallMade

(* ---- the event log ---- *)
\* env_data.add_event(type, message, level)
AddEvent(type, message, level) ==
    /\ events' = add_event(events, type, message, level)
    /\ last' = Observed("add_event", device_states,
                        <<Event(type, message, level)>>, 0, FALSE)
    /\ UNCHANGED <<data, device_states, thresholds, data_mode, use_simulation,
                   connected, data_to_send>>
    /\ UNCHANGED parserVars
    /\ NoTransportCallMade
    /\ UNCHANGED raceVars

(* ---- specifications ---- *)
\* the parser on a noisy line
NextNoise == \E b \in NoiseBytes \cup NoiseLens : Noise(b)

SpecNoise == Init /\ [][NextNoise]_vars

\* the parser on streams that announce every length
NextSweep == \E b \in SweepBytes(parser) : Sweep(b)

SpecSweep == Init /\ [][NextSweep]_vars

\* the parser on streams of packed frames
NextStream ==
    \/ \E f \in StreamFrames : PackFrame(f[1], f[2])
    \/ \E f1 \in StreamFrames, f2 \in SecondFrames, bad \in BadChecksums :
          PackCorruptThenValid(f1, bad, f2)
    \/ FeedWire

SpecStream == Init /\ [][NextStream]_vars

\* ticks, sensor reports, threshold updates and mode switches
NextTick ==
    \/ \E s \in SimSamples : SimulateData(s)
    \/ \E f \in SensorFrames \cup OtherFrames : OnSerialData(f[1], f[2])
    \/ \E m \in Modes : SetDataMode(m)
    \/ \E t \in ThresholdRequests : UpdateThreshold(t[1], t[2], t[3])

SpecTick == Init /\ [][NextTick]_vars

\* the same with device-state reports and manual toggles
Next ==
    \/ \E s \in SimSamples : SimulateData(s)
    \/ \E f \in SensorFrames \cup StatusFrames \cup OtherFrames :
          OnSerialData(f[1], f[2])
    \/ \E m \in Modes : SetDataMode(m)
    \/ \E t \in ThresholdRequests : UpdateThreshold(t[1], t[2], t[3])
    \/ \E c \in ControlRequests : ControlDevice(c[1], c[2])

Spec == Init /\ [][Next]_vars

\* the transport: calls on the SerialManager, its reader threads and the
\* device on the line
NextTransport ==
    \/ \E ports \in SystemPorts, ok \in BOOLEAN : ListPorts(ports, ok)
    \/ \E port_ok \in BOOLEAN, joined \in BOOLEAN : Connect(port_ok, joined)
    \/ \E joined \in BOOLEAN : Disconnect(joined)
    \/ \E f \in CommandRequests, write_ok \in BOOLEAN :
          SendCommand(f[1], f[2], write_ok)
    \/ \E t \in 1..MaxReaders : RxCheck(t)
    \/ \E t \in 1..MaxReaders, n \in ReadLens(wire), io_ok \in BOOLEAN :
          RxBody(t, n, io_ok)
    \/ \E f \in OtherFrames : DeviceSends(f[1], f[2])

SpecTransport == Init /\ [][NextTransport]_vars

\* the same with the scheduler's fairness: a reader thread that has been
\* started and has not left _rx_worker gets to take its next step
SpecDetached ==
    /\ Init
    /\ [][NextTransport]_vars
    /\ \A t \in 1..MaxReaders :
          /\ WF_vars(RxCheck(t))
          /\ WF_vars(\E n \in ReadLens(wire), io_ok \in BOOLEAN :
                        RxBody(t, n, io_ok))

\* commands to the device: connects and disconnects, device-state reports
\* handled by the reader's callback, send_device_command
NextCommand ==
    \/ \E port_ok \in BOOLEAN, joined \in BOOLEAN : Connect(port_ok, joined)
    \/ \E joined \in BOOLEAN : Disconnect(joined)
    \/ \E f \in ReportFrames : OnSerialData(f[1], f[2])
    \/ \E device \in CommandDevices, state \in BOOLEAN, write_ok \in BOOLEAN :
          SendDeviceCommand(device, state, write_ok)

SpecCommand == Init /\ [][NextCommand]_vars

\* one device command, for every device, from every combination of flags
\* one device-state report can leave
NextRoundTrip ==
    \/ \E port_ok \in BOOLEAN : ser # "open" /\ Connect(port_ok, TRUE)
    \/ \E v \in StatusBytes : events = <<>> /\ OnSerialData(2, <<v>>)
    \/ \E device \in Devices, state \in BOOLEAN, write_ok \in BOOLEAN :
          Len(events) <= 1 /\ SendDeviceCommand(device, state, write_ok)

SpecRoundTrip == Init /\ [][NextRoundTrip]_vars

\* the life of a connection next to the periodic tick: connects and
\* disconnects, the reader threads, reports of the device, commands, ticks
NextLifecycle ==
    \/ \E port_ok \in BOOLEAN, joined \in BOOLEAN : Connect(port_ok, joined)
    \/ \E joined \in BOOLEAN : Disconnect(joined)
    \/ \E f \in CommandRequests, write_ok \in BOOLEAN :
          SendCommand(f[1], f[2], write_ok)
    \/ \E t \in 1..MaxReaders : RxCheck(t)
    \/ \E t \in 1..MaxReaders, n \in ReadLens(wire), io_ok \in BOOLEAN :
          RxBody(t, n, io_ok)
    \/ \E f \in OtherFrames : DeviceSends(f[1], f[2])
    \/ \E s \in QuietSamples : SimulateData(s)

SpecLifecycle == Init /\ [][NextLifecycle]_vars

\* one connection: its reader thread reads a stream of frames in reads of
\* every size
NextOneReader ==
    \/ \E port_ok \in BOOLEAN : ser # "open" /\ Connect(port_ok, TRUE)
    \/ \E t \in 1..MaxReaders : RxCheck(t)
    \/ \E t \in 1..MaxReaders, n \in StreamReadLens(wire), io_ok \in BOOLEAN :
          RxBody(t, n, io_ok)
    \/ \E frames \in ReaderStreams : DeviceStream(frames)

SpecOneReader == Init /\ [][NextOneReader]_vars

\* the periodic publish next to mode switches, connects, disconnects and
\* sensor reports
NextPublish ==
    \/ \E port_ok \in BOOLEAN, joined \in BOOLEAN : Connect(port_ok, joined)
    \/ \E joined \in BOOLEAN : Disconnect(joined)
    \/ \E m \in Modes : SetDataMode(m)
    \/ \E f \in SensorFrames : OnSerialData(f[1], f[2])
    \/ \E s \in QuietSamples : SimulateData(s)

SpecPublish == Init /\ [][NextPublish]_vars

\* the simulate_data thread and the reader thread's frame handler, each
\* taking its steps when the scheduler lets it
NextRace ==
    \/ \E s \in SimSamples : TickSample(s)
    \/ TickControl
    \/ \E f \in SensorFrames \cup StatusFrames : HandleFirst(f[1], f[2])
    \/ HandleRest

SpecRace == Init /\ [][NextRace]_vars

\* the event log filled past its capacity
NextLog ==
    \E i \in LogMessages : AddEvent("SYSTEM", <<"event", ToString(i)>>, "INFO")

SpecLog == Init /\ [][NextLog]_vars

\* the frame handler on every kind of frame: sensor reports, full and short,
\* device-state reports, and every status byte in the last report the bound
\* on the log admits
NextFrames ==
    \/ \E f \in SensorFrames \cup StatusFrames : OnSerialData(f[1], f[2])
    \/ \E payload \in ShortSensorPayloads : OnSerialData(1, payload)
    \/ \E payload \in AllStatusPayloads :
          /\ Len(events) + 1 = MaxLog
          /\ OnSerialData(2, payload)

SpecFrames == Init /\ [][NextFrames]_vars

(***************************************************************************)
(* Claims.                                                                 *)
(***************************************************************************)
\* number of bytes pack_frame puts on the wire for frame f = <<cmd, payload>>
WireLen(f) == Len(f[2]) + 5

\* C1 (round trip): while the bytes of pack_frame(cmd, payload) are fed one
\* at a time to a parser that was Searching, feed returns None on every byte
\* but the last, returns exactly (cmd, payload) on the last byte, and leaves
\* the parser Searching.
C1_RoundTrip ==
    sent.kind = "frame" =>
        LET f == sent.frames[1]
            n == WireLen(f)
        IN  /\ Len(out) <= n
            /\ \A i \in 1..Len(out) : out[i] = IF i = n THEN f ELSE None
            /\ wire = <<>> => (Len(out) = n /\ parser.state = 0)

\* C1 witness: a frame whose payload holds both 0xAA and 0x55 has been fed
\* completely.
C1_Witness ==
    /\ sent.kind = "frame"
    /\ wire = <<>>
    /\ sent.frames[1][2] = <<SOF, EOF>>
    /\ result.value = <<sent.frames[1][1], <<SOF, EOF>>>>

\* C2 (resync): for a frame whose checksum byte was replaced by a wrong value
\* followed at once by a valid frame, feed returns None on every byte but the
\* last of the second frame and returns the second frame there: one frame in
\* total.
C2_Resync ==
    sent.kind = "resync" =>
        LET f2 == sent.frames[2]
            n == WireLen(sent.frames[1]) + WireLen(f2)
        IN  /\ Len(out) <= n
            /\ \A i \in 1..Len(out) : out[i] = IF i = n THEN f2 ELSE None
            /\ wire = <<>> => Len(out) = n

\* C2 witness: both frames have been fed, the first one's checksum having
\* arrived as 0xAA.
C2_Witness ==
    /\ sent.kind = "resync"
    /\ sent.bad = SOF
    /\ wire = <<>>
    /\ result.value = sent.frames[2]

\* C3: feed returns a frame exactly for the byte 0x55 received in state 4,
\* and state 4 is entered only from state 3 on a byte equal to the XOR of the
\* buffered LEN, CMD and payload bytes.
C3_FrameOnlyOnValidClose ==
    /\ (result.value # None) <=> (result.state = 4 /\ result.byte = EOF)
    /\ parser.state = 4 =>
           /\ result.state = 3
           /\ result.byte = calc_cs(parser.buf)
           /\ Len(parser.buf) >= 2

\* C3 witness: noise has closed a frame that carries a payload.
C3_Witness ==
    /\ result.value # None
    /\ Len(result.value[2]) > 0

\* C4 (mutual exclusion under ticks): heating and cooling are never both on,
\* humidify and dehumidify are never both on.
C4_MutualExclusion ==
    /\ ~(device_states.heating /\ device_states.cooling)
    /\ ~(device_states.humidify /\ device_states.dehumidify)

\* C4 witness: a tick has switched from heating straight to cooling.
C4_Witness ==
    /\ last.op = "auto_control"
    /\ last.before.heating
    /\ device_states.cooling

\* the pairs of devices that work against each other
ExclusivePairs == {<<"heating", "cooling">>, <<"humidify", "dehumidify">>}

\* C5 (DeviceStateSet invariant, as claimed): under ticks, manual toggles and
\* device-state frames no pair of opposed devices is on together.
C5_DeviceStateInvariant ==
    \A pair \in ExclusivePairs :
        ~(device_states[pair[1]] /\ device_states[pair[2]])

\* C6 (idempotent hysteresis): a second auto_control call in a row, on the
\* same sample, thresholds and flags, appends no event and changes no flag.
C6_IdempotentHysteresis ==
    (last.op = "auto_control" /\ last.calls >= 2 /\ last.same) =>
        (last.appended = <<>> /\ device_states = last.before)

\* C6 witness: the second of two calls on the same sample has returned, the
\* first one having logged a flip.
C6_Witness ==
    /\ last.op = "auto_control"
    /\ last.calls = 2
    /\ last.same
    /\ events # <<>>
    /\ events[Len(events)].type = "DEVICE"

\* C7 (events are transitions only): an auto_control call that changes no
\* flag appends no event, and every event it appends has category DEVICE.
C7_TransitionsOnly ==
    last.op = "auto_control" =>
        /\ device_states = last.before => last.appended = <<>>
        /\ \A i \in 1..Len(last.appended) : last.appended[i].type = "DEVICE"

\* C7 witness: a call found the temperature above the maximum with cooling
\* already on and changed nothing.
C7_Witness ==
    /\ last.op = "auto_control"
    /\ device_states = last.before
    /\ data.temperature > thresholds.temperature.max
    /\ device_states.cooling

\* number of flags that differ between two flag sets
Flips(before, after) == Cardinality({d \in Devices : before[d] # after[d]})

\* number of opposed pairs switched directly from one device to the other
Swaps(before, after) ==
    Cardinality({pair \in ExclusivePairs :
                    /\ before[pair[1]] # after[pair[1]]
                    /\ before[pair[2]] # after[pair[2]]
                    /\ after[pair[1]] # after[pair[2]]})

\* C8 (as claimed): the number of events one auto_control call appends equals
\* the number of flags it changed.
C8_OneEventPerFlag ==
    last.op = "auto_control" =>
        Len(last.appended) = Flips(last.before, device_states)

\* C8 (amended): the number of DEVICE events one auto_control call appends is
\* the number of flags it changed, less one for every opposed pair it
\* switched directly from one device to the other.
C8_OneEventPerTransition ==
    last.op = "auto_control" =>
        /\ Len(last.appended) =
              Flips(last.before, device_states)
                - Swaps(last.before, device_states)
        /\ \A i \in 1..Len(last.appended) : last.appended[i].type = "DEVICE"

\* C8 witness: a call switched from heating straight to cooling and logged
\* one event for the two flags.
C8_Witness ==
    /\ last.op = "auto_control"
    /\ last.before.heating /\ ~last.before.cooling
    /\ ~device_states.heating /\ device_states.cooling
    /\ Len(last.appended) = 1

\* C9 (temperature loop result, as claimed): after auto_control, below the
\* minimum heating is on and cooling off, above the maximum cooling is on and
\* heating off, within the band both are off.
C9_TemperatureResult ==
    last.op = "auto_control" =>
        LET t == data.temperature
            min == thresholds.temperature.min
            max == thresholds.temperature.max
        IN  /\ t < min => (device_states.heating /\ ~device_states.cooling)
            /\ t > max => (device_states.cooling /\ ~device_states.heating)
            /\ (min <= t /\ t <= max) =>
                   (~device_states.heating /\ ~device_states.cooling)

\* C10 (CO2 loop result): after auto_control, ventilation is on exactly when
\* co2 is above its maximum.
C10_Co2Result ==
    last.op = "auto_control" =>
        (device_states.ventilation <=> data.co2 > thresholds.co2.max)

\* C10 witness: a call found ventilation on with co2 at or below the maximum
\* and switched it off.
C10_Witness ==
    /\ last.op = "auto_control"
    /\ last.before.ventilation
    /\ ~device_states.ventilation
    /\ data.co2 <= thresholds.co2.max

\* the status byte C11 expects after send_device_command(device, state):
\* the bit of every device whose effective state is true
Bit(on, mask) == IF on THEN mask ELSE 0

EffectiveByte(device, state, ds) ==
    LET eff(dev) == IF dev = device THEN state ELSE ds[dev]
    IN  Bit(eff("heating"), 1) + Bit(eff("cooling"), 2)
        + Bit(eff("humidify"), 4) + Bit(eff("dehumidify"), 8)
        + Bit(eff("ventilation"), 16) + Bit(eff("close_vent"), 32)

\* C11: on a connected transport, send_device_command(d, s) for a recognized
\* device d hands to the port exactly one frame: SOF, LEN 2, CMD 0x03, one
\* payload byte that is the OR of the bitmasks of the devices whose effective
\* state is true (d's is s, the others' their recorded state), checksum, EOF.
C11_CommandByte ==
    (/\ call.op = "send_device_command"
     /\ call.args[1] \in Devices
     /\ call.before.connected)
    => LET b == EffectiveByte(call.args[1], call.args[2] = "TRUE",
                              call.before.device_states)
       IN  /\ call.wrote = <<SOF, 2, 3, b, Xor(Xor(2, 3), b), EOF>>
           /\ call.wrote = pack_frame(3, <<b>>)
           /\ device_states = call.before.device_states

\* cooling := true with ventilation on yields 0x12
C11_Witness ==
    /\ call.op = "send_device_command"
    /\ call.args = <<"cooling", "TRUE">>
    /\ call.before.connected
    /\ call.before.device_states["ventilation"]
    /\ ~call.before.device_states["cooling"]
    /\ call.ok
    /\ call.wrote[4] = 18

\* C12: send_device_command with a device name that is not one of the six
\* fails with the unknown-device error in every connection state, writes
\* nothing, appends no event and leaves the device flags unchanged.
C12_UnknownDevice ==
    (/\ call.op = "send_device_command"
     /\ call.args[1] \notin Devices)
    => /\ ~call.ok
       /\ call.msg = "unknown device"
       /\ call.wrote = <<>>
       /\ events = call.before.events
       /\ device_states = call.before.device_states

\* C13: when the transport is not connected, send_command returns the
\* failure "Not connected", hands no byte to any port and changes neither
\* the connection state nor the parser.
C13_SendWhileDisconnected ==
    (/\ call.op = "send_command"
     /\ ~call.before.connected)
    => /\ ~call.ok
       /\ call.msg = "Not connected"
       /\ call.wrote = <<>>
       /\ connected = call.before.connected
       /\ ser = call.before.ser
       /\ stop_flag = call.before.stop_flag
       /\ rx_thread = call.before.rx_thread
       /\ readers = call.before.readers
       /\ parser = call.before.parser

\* send_command after a disconnect: the port object exists and is closed
C13_Witness ==
    /\ call.op = "send_command"
    /\ ~call.before.connected
    /\ call.before.ser = "closed"
    /\ call.msg = "Not connected"

\* C14: whenever connect returns failure (the device cannot be opened or the
\* serial library is unavailable), the transport is not connected after the
\* call and the call started no reader, whatever the state was before it.
C14_OpenFailure ==
    (call.op = "connect" /\ ~call.ok)
    => /\ ~connected
       /\ ser # "open"
       /\ call.started = 0
       /\ rx_thread = call.before.rx_thread
       /\ \A t \in 1..MaxReaders :
             call.before.readers[t] = "new" => readers[t] = "new"

\* a reconnect to a port that cannot be opened, made while connected
C14_Witness ==
    /\ call.op = "connect"
    /\ ~call.ok
    /\ call.before.connected
    /\ call.before.ser = "open"
    /\ ~connected

\* C15: disconnect returns success from every state; on return the transport
\* is not connected, the stop flag is set and the port, if there is one, is
\* closed; a second disconnect right after the first changes no state.
C15_DisconnectIdempotent ==
    [][call'.op = "disconnect"
       => /\ call'.ok
          /\ ~call'.raised
          /\ ~connected'
          /\ stop_flag'
          /\ ser' = (IF ser = "none" THEN "none" ELSE "closed")
          /\ call.op = "disconnect"
             => /\ connected' = connected
                /\ stop_flag' = stop_flag
                /\ ser' = ser
                /\ rx_thread' = rx_thread
                /\ parser' = parser
                /\ wire' = wire]_vars

\* a disconnect made when already disconnected, the port closed by an
\* earlier disconnect
C15_Witness ==
    /\ call.op = "disconnect"
    /\ ~call.before.connected
    /\ call.before.stop_flag
    /\ call.before.ser = "closed"
    /\ rx_thread # 0

\* C20: when the serial library is unavailable, list_ports returns the empty
\* list and connect returns failure, neither raises, and the transport stays
\* disconnected.
C20_Degraded ==
    ~SERIAL_AVAILABLE
    => /\ call.op = "list_ports" => (call.ports = <<>> /\ ~call.raised)
       /\ call.op = "connect" => (~call.ok /\ ~call.raised)
       /\ ~connected
       /\ ser = "none"
       /\ rx_thread = 0

\* list_ports without the library on a system that has a port
C20_Witness ==
    /\ ~SERIAL_AVAILABLE
    /\ call.op = "list_ports"
    /\ call.args = <<"COM3">>
    /\ call.ports = <<>>

\* connect without the library to a port that would open
C20_ConnectWitness ==
    /\ ~SERIAL_AVAILABLE
    /\ call.op = "connect"
    /\ call.args = <<"port">>
    /\ ~call.ok

\* C16: the connection state changes only inside connect and disconnect: no
\* step of a reader, of send_command, of the frame handler or of the tick
\* changes it, and it stays connected when a reader leaves its loop on a read
\* error.
C16_OnlyConnectDisconnect ==
    [][connected' # connected
       => call'.op \in {"connect", "disconnect"}]_vars

\* the reader of the current connection ended on a read error, the port is
\* still open and the transport still says connected
C16_Witness ==
    /\ connected
    /\ ser = "open"
    /\ rx_thread # 0
    /\ readers[rx_thread] = "failed"

\* C17: over any sequence of connect and disconnect calls, including a
\* disconnect whose join times out, at most one reader thread is inside the
\* loop of _rx_worker, so that no two threads feed the parser at once.
C17_ReaderExclusivity ==
    Cardinality({t \in 1..MaxReaders : readers[t] = "body"}) <= 1

\* C18: the frame handler on the reader thread and the periodic tick are
\* serialized: no step of one runs between the first and the last step of an
\* invocation of the other, so the two are never both inside an invocation.
C18_SingleWriter == ~(tick_pc = "sampled" /\ handler # <<>>)

\* C19: after every completed add_event the log holds at most 100 entries,
\* and they are the most recently appended ones in append order: the new
\* entry is last and, when the log already held 100, its oldest entry is the
\* one that went.
C19_BoundedLog ==
    [][last'.op = "add_event"
       => LET e == last'.appended[1]
          IN  /\ Len(events') <= 100
              /\ events' = IF Len(events) < 100 THEN Append(events, e)
                           ELSE Append(Tail(events), e)]_vars

\* the log is full and its first entry is the second one ever appended
C19_Witness ==
    /\ last.op = "add_event"
    /\ Len(events) = 100
    /\ events[1].message = <<"event", "1">>
    /\ events[100] = last.appended[1]

\* C21: handling a command-0x01 frame whose payload is shorter than 20 bytes
\* leaves every field of the sample and every device flag unchanged and
\* appends one event that records that the frame was ignored.
C21_ShortSensorPayload ==
    (/\ last.op = "on_serial_data"
     /\ last.input[1] = 1
     /\ Len(last.input[2]) < 20)
    => /\ last.same
       /\ device_states = last.before
       /\ Len(last.appended) = 1

\* bit of value mask set in the byte v
BitSet(v, mask) == (v \div mask) % 2 = 1

\* C22: handling a command-0x02 frame whose first payload byte is v sets
\* heating, cooling, humidify, dehumidify, ventilation and close_vent to bits
\* 0x01, 0x02, 0x04, 0x08, 0x10 and 0x20 of v, whatever bits 0x40 and 0x80
\* are; a command-0x02 frame with an empty payload changes no flag.
C22_DeviceStateDecode ==
    (last.op = "on_serial_data" /\ last.input[1] = 2)
    => IF last.input[2] = <<>>
       THEN device_states = last.before
       ELSE LET v == last.input[2][1]
            IN  /\ device_states["heating"] = BitSet(v, 1)
                /\ device_states["cooling"] = BitSet(v, 2)
                /\ device_states["humidify"] = BitSet(v, 4)
                /\ device_states["dehumidify"] = BitSet(v, 8)
                /\ device_states["ventilation"] = BitSet(v, 16)
                /\ device_states["close_vent"] = BitSet(v, 32)
                /\ DOMAIN device_states = Devices
                /\ last.same

\* the status byte 0xD5, bits 0x40 and 0x80 set, switched heating, humidify
\* and ventilation on and the other three off when cooling was on
C22_Witness ==
    /\ last.op = "on_serial_data"
    /\ last.input = <<2, <<213>>>>
    /\ last.before["cooling"]
    /\ device_states =
          [d \in Devices |-> d \in {"heating", "humidify", "ventilation"}]

\* events' is events with one more entry, of the given type
OneMore(type) ==
    /\ Len(events') = Len(events) + 1
    /\ SubSeq(events', 1, Len(events)) = events
    /\ events'[Len(events')].type = type

\* C23: a manual toggle of a recognized device changes only that device's
\* flag, leaves the sample and the thresholds alone and appends exactly one
\* MANUAL event if and only if the flag's value changed; a threshold update
\* changes only the bound it addresses, appends one SYSTEM event and changes
\* no flag; a toggle of an unknown device or an update of a bound the sensor
\* does not have changes nothing.
C23_Overrides ==
    [][/\ \A r \in ControlRequests :
             ControlDevice(r[1], r[2])
             => IF r[1] \in Devices
                THEN /\ \A d \in Devices \ {r[1]} :
                           device_states'[d] = device_states[d]
                     /\ data' = data
                     /\ thresholds' = thresholds
                     /\ IF device_states'[r[1]] # device_states[r[1]]
                        THEN OneMore("MANUAL")
                        ELSE events' = events
                ELSE UNCHANGED <<device_states, data, thresholds, events>>
       /\ \A t \in ThresholdRequests :
             UpdateThreshold(t[1], t[2], t[3])
             => IF t[1] \in DOMAIN thresholds
                   /\ t[2] \in DOMAIN thresholds[t[1]]
                THEN /\ \A sensor \in DOMAIN thresholds :
                           \A bound \in DOMAIN thresholds[sensor] :
                              <<sensor, bound>> # <<t[1], t[2]>>
                              => thresholds'[sensor][bound]
                                 = thresholds[sensor][bound]
                     /\ DOMAIN thresholds' = DOMAIN thresholds
                     /\ thresholds'[t[1]][t[2]] = t[3]
                     /\ OneMore("SYSTEM")
                     /\ device_states' = device_states
                     /\ data' = data
                ELSE UNCHANGED <<device_states, data, thresholds, events>>
      ]_vars

\* cooling was switched on by hand while heating was on: heating stays on and
\* one event was logged
C23_Witness ==
    /\ last.op = "control_device"
    /\ last.before["heating"]
    /\ ~last.before["cooling"]
    /\ device_states["heating"]
    /\ device_states["cooling"]
    /\ Len(last.appended) = 1
    /\ last.appended[1].type = "MANUAL"

\* C24: on every periodic publish the published sample has all five fields
\* null exactly when the data mode is serial and the transport is not
\* connected; in every other case it is the current sample.
C24_NoDataSignal ==
    [][\A s \in QuietSamples :
          SimulateData(s)
          => /\ (\A k \in SampleKeys : data_to_send'[k] = <<>>)
                <=> (data_mode' = "serial" /\ ~connected')
             /\ ~(data_mode' = "serial" /\ ~connected')
                => /\ DOMAIN data_to_send' = DOMAIN data'
                   /\ \A k \in DOMAIN data' : data_to_send'[k] = <<data'[k]>>
      ]_vars

\* a tick in serial mode with the port connected published the sample the
\* device reported
C24_Witness ==
    /\ last.op = "auto_control"
    /\ data_mode = "serial"
    /\ connected
    /\ data_to_send # <<>>
    /\ data_to_send["temperature"] = <<18>>
    /\ data["temperature"] = 18

\* a tick in serial mode without a connection published five nulls
C24_NullWitness ==
    /\ last.op = "auto_control"
    /\ data_mode = "serial"
    /\ ~connected
    /\ data_to_send # <<>>
    /\ \A k \in SampleKeys : data_to_send[k] = <<>>

\* C25: whenever feed receives, in state 3 (ReadChecksum), a byte different
\* from the XOR of the buffered bytes, or, in state 4 (ReadTerminator), a byte
\* different from 0x55, it returns nothing and the parser's next state is 0
\* (Searching), also when the byte is 0xAA: the byte is consumed and not
\* re-examined as a start of frame.
C25_UnconditionalResync ==
    /\ (result.state = 3 /\ result.byte # calc_cs(parser.buf))
       => (result.value = None /\ parser.state = 0)
    /\ (result.state = 4 /\ result.byte # EOF)
       => (result.value = None /\ parser.state = 0)

\* the byte rejected as a terminator was 0xAA and the parser is Searching
C25_Witness ==
    /\ result.state = 4
    /\ result.byte = SOF
    /\ result.value = None
    /\ parser.state = 0

\* C26 (as claimed): for every LEN byte 0..255, whenever feed emits a frame,
\* cmd is the buffered CMD byte buf[1] and payload is every buffered byte
\* after LEN and CMD, buf[2:], i.e. every payload byte the parser accumulated
\* for that frame.
C26_EmittedFrameContent ==
    result.value # None
    => /\ result.value[1] = parser.buf[2]
       /\ result.value[2] = SubSeq(parser.buf, 3, Len(parser.buf))
       /\ parser.length > 1 => result.value[2] = parser.payload

\* C27 (as claimed): for every LEN byte 0..255, the parser leaves state 21
\* (ReadPayload) for state 3 (ReadChecksum) exactly on the byte at which the
\* number of accumulated payload bytes equals LEN-1, and it goes from state 2
\* straight to state 3 exactly when LEN is 1.
C27_PayloadAccumulation ==
    /\ result.state = 21
       => (parser.state = 3 <=> Len(parser.payload) = parser.length - 1)
    /\ result.state = 21 => parser.state \in {3, 21}
    /\ result.state = 2 => (parser.state = 3 <=> parser.length = 1)
    /\ result.state = 2 => parser.state \in {3, 21}

\* C28: after a start of frame is accepted the parser is back in state 0
\* (Searching) after at most 258 further bytes, and in every reachable state
\* the frame buffer holds at most 256 bytes and the payload accumulator at
\* most 254.
C28_ForwardProgress ==
    /\ result.since <= 258
    /\ parser.state # 0 => result.since < 258
    /\ Len(parser.buf) <= 256
    /\ Len(parser.payload) <= 254

\* a frame announcing LEN 255 closed on the 258th byte after its SOF
C28_Witness ==
    /\ result.since = 258
    /\ result.state = 4
    /\ parser.state = 0
    /\ parser.length = 255
    /\ Len(parser.buf) = 256
    /\ Len(parser.payload) = 254
    /\ result.value # None

\* the call just made was a disconnect (also the one connect makes first) of
\* an open port whose join(timeout=1) returned with reader t still inside the
\* loop body
JoinTimedOut(t) ==
    /\ call.op \in {"disconnect", "connect"}
    /\ call.before.ser = "open"
    /\ call.before.rx_thread = t
    /\ call.before.readers[t] = "body"
    /\ readers[t] = "body"

\* C29 (as claimed): when the join of disconnect times out and the port is
\* closed anyway, the reader thread that is still running eventually leaves
\* _rx_worker, whatever calls follow on the transport, also a connect that
\* reopens a port and clears the stop flag at once.
C29_DetachedReaderExits ==
    \A t \in 1..MaxReaders :
       JoinTimedOut(t) ~> (readers[t] \in {"done", "failed"})

\* C30: when the concatenation of N frames made by pack_frame is read by a
\* reader thread whose parser is in state 0, the callback is invoked exactly
\* N times, once per frame, with the <<cmd, payload>> pairs in the order sent,
\* however the bytes are split across reads: at every moment the frames
\* delivered are the first ones sent, and all N once every byte was read.
C30_FrameStreamOrdering ==
    sent.kind = "stream"
    => /\ Len(out) <= Len(sent.frames)
       /\ out = SubSeq(sent.frames, 1, Len(out))
       /\ sent.read = Len(PackAll(sent.frames)) => out = sent.frames

\* the frame with the 254-byte payload was delivered between two others
C30_LongWitness ==
    /\ sent.kind = "stream"
    /\ Len(sent.frames) = 3
    /\ sent.frames[2] = LongestFrame
    /\ sent.read = Len(PackAll(sent.frames))
    /\ out = sent.frames

\* two different frames were read to the last byte and delivered
C30_Witness ==
    /\ sent.kind = "stream"
    /\ Len(sent.frames) = 2
    /\ sent.frames[1] # sent.frames[2]
    /\ sent.read = Len(PackAll(sent.frames))
    /\ wire = <<>>
    /\ out = sent.frames

\* a read ended inside the second frame, the first one delivered
C30_SplitWitness ==
    /\ sent.kind = "stream"
    /\ Len(sent.frames) = 2
    /\ Len(out) = 1
    /\ parser.state = 21
    /\ wire # <<>>

\* C31: in auto_control the temperature loop writes only heating and cooling,
\* the humidity loop only humidify and dehumidify, the CO2 loop only
\* ventilation, each deciding from the sample, the thresholds and its own
\* flags alone; the call never changes close_vent, the thresholds, the data
\* mode or the connection state, and the sample after the tick is the one
\* auto_control was called on: the sample before the tick or, in simulation
\* mode, the one the tick drew.
C31_LoopIndependence ==
    [][(last'.op = "auto_control" /\ last' # last)
          => LET t == temperature_control(device_states, data', thresholds)
                 h == humidity_control(device_states, data', thresholds)
                 c == co2_control(device_states, data', thresholds)
             IN  /\ \A k \in Devices \ {"heating", "cooling"} :
                       t.ds[k] = device_states[k]
                 /\ \A k \in Devices \ {"humidify", "dehumidify"} :
                       h.ds[k] = device_states[k]
                 /\ \A k \in Devices \ {"ventilation"} :
                       c.ds[k] = device_states[k]
                 /\ \A k \in {"heating", "cooling"} :
                       device_states'[k] = t.ds[k]
                 /\ \A k \in {"humidify", "dehumidify"} :
                       device_states'[k] = h.ds[k]
                 /\ device_states'["ventilation"] = c.ds["ventilation"]
                 /\ device_states'["close_vent"] = device_states["close_vent"]
                 /\ thresholds' = thresholds
                 /\ data_mode' = data_mode
                 /\ connected' = connected
                 /\ \/ data' = data
                    \/ /\ data_mode = "simulation"
                       /\ \E s \in SimSamples :
                             data' = [k \in DOMAIN data |->
                                         IF k \in SampleKeys THEN s[k]
                                         ELSE data[k]]
      ]_vars

\* a tick switched the ventilation off while close_vent was on, and
\* close_vent is still on
C31_Witness ==
    /\ last.op = "auto_control"
    /\ last.before["close_vent"]
    /\ last.before["ventilation"]
    /\ ~device_states["ventilation"]
    /\ device_states["close_vent"]

\* C32 (as claimed): at the moment a connect call returns success the
\* FrameParser of the transport is in state 0 (Searching), with no partial
\* frame carried over from a previous connection.
C32_FreshParser ==
    (call.op = "connect" /\ call.ok) => parser.state = 0

\* C33 (as claimed): set_data_mode called with 'simulation' or 'serial'
\* always returns a success result and leaves data_mode equal to the
\* requested mode, also when that is the current mode, in which case no
\* event is appended; called with any other value it returns failure and
\* changes neither data_mode nor the event log.
C33_ModeSwitchOutcome ==
    last.op = "set_data_mode"
    => LET mode == last.input[1]
           old_mode == last.input[2]
       IN  IF mode \in {"simulation", "serial"}
           THEN /\ last.returned = <<"success">>
                /\ data_mode = mode
                /\ mode = old_mode => last.appended = <<>>
           ELSE /\ last.returned = <<"failure">>
                /\ data_mode = old_mode
                /\ last.appended = <<>>

\* the other parts of the claim, which the code keeps: the mode after the
\* call, the events of a repeated request and the refusal of another value
C33_ModeAfterCall ==
    last.op = "set_data_mode"
    => LET mode == last.input[1]
           old_mode == last.input[2]
       IN  IF mode \in {"simulation", "serial"}
           THEN /\ data_mode = mode
                /\ mode = old_mode => last.appended = <<>>
                /\ mode # old_mode => last.returned = <<"success">>
           ELSE /\ last.returned = <<"failure">>
                /\ data_mode = old_mode
                /\ last.appended = <<>>

\* C34: for every set S of recorded flags, recognized device d and desired
\* state s, decoding the status byte that send_device_command(d, s) builds
\* from S with the bitmask decode of command 0x02 yields S with d set to s,
\* and building the command leaves the recorded flags as they were.
C34_StatusByteRoundTrip ==
    (/\ call.op = "send_device_command"
     /\ call.args[1] \in Devices
     /\ call.wrote # <<>>)
    => LET S == call.before.device_states
           d == call.args[1]
           s == call.args[2] = "TRUE"
       IN  /\ decode_device_byte(call.wrote[4]) = [S EXCEPT ![d] = s]
           /\ device_states = S

\* close_vent := false built from all six flags on: the byte 0x1F decodes to
\* the other five on and close_vent off
C34_Witness ==
    /\ call.op = "send_device_command"
    /\ call.args = <<"close_vent", "FALSE">>
    /\ \A k \in Devices : call.before.device_states[k]
    /\ call.wrote # <<>>
    /\ call.wrote[4] = 31
    /\ ~decode_device_byte(call.wrote[4])["close_vent"]
    /\ decode_device_byte(call.wrote[4])["heating"]
    /\ device_states["close_vent"]

====
